---- MODULE Spec2Model ----
(***************************************************************************)
(* The wallet core of TronLink: the Wallet class (backgroundScript/        *)
(* wallet.js) and the background script that owns the pending-confirmation *)
(* registry and the popup/page message handlers.                           *)
(*                                                                         *)
(* JavaScript values that may be `false`, `undefined` or a string are      *)
(* tagged tuples, so that any two of them can be compared: False,          *)
(* Undefined, True, Str(<<chars>>), Num(n).  Objects are records whose     *)
(* absent properties read Undefined, as in JavaScript.  An object used as  *)
(* a map (this._accounts, pendingConfirmations) keeps its insertion order, *)
(* which Object.keys returns: it is a sequence of [key, value] entries.    *)
(***************************************************************************)
EXTENDS Integers, Sequences, FiniteSets, TLC

\* ------------------------------------------------------------------ bounds
MaxDerived == 2         \* value the internal-account counter may reach
MaxRefreshes == 1       \* updateAccounts / updateAccount runs started in one run
MaxConfirmations == 2   \* confirmations submitted in one run
MaxAccepts == 2         \* accept handlers started in one run
MaxRequests == 1        \* raw broadcasts requested by a page in one run
MaxImports == 2         \* seed-phrase imports started in one run
MaxScans == 1           \* seed-phrase scans in flight at a time
MaxHistory == 3         \* derivation indices that may have history on the chain

\* ------------------------------------------------------- JavaScript values
False == <<"false">>
True == <<"true">>
Undefined == <<"undefined">>
Str(chars) == <<"string", chars>>
Num(n) == <<"number", n>>

\* !v of JavaScript, for the values the model uses.
Falsy(v) == v \in {False, Undefined, Str(<<>>), Num(0)}
Truthy(v) == ~Falsy(v)

Min(a, b) == IF a < b THEN a ELSE b

\* ---------------------------------------------------------------- strings
NameLimit == 32

\* String.prototype.substring(0, n)
substring(chars, n) == SubSeq(chars, 1, Min(n, Len(chars)))

RECURSIVE trimStart(_)
trimStart(chars) ==
    IF chars # <<>> /\ Head(chars) = " " THEN trimStart(Tail(chars)) ELSE chars

RECURSIVE trimEnd(_)
trimEnd(chars) ==
    IF chars # <<>> /\ chars[Len(chars)] = " "
    THEN trimEnd(SubSeq(chars, 1, Len(chars) - 1))
    ELSE chars

\* String.prototype.trim()
trim(chars) == trimEnd(trimStart(chars))

DefaultAccountName ==
    Str(<<"D", "e", "f", "a", "u", "l", "t", " ", "A", "c", "c", "o", "u", "n", "t">>)

\* ------------------------------------------------ objects used as key maps
Keys(obj) == [i \in 1..Len(obj) |-> obj[i].key]
KeySet(obj) == {obj[i].key : i \in 1..Len(obj)}
hasOwnProperty(obj, k) == k \in KeySet(obj)
IndexOf(obj, k) == CHOOSE i \in 1..Len(obj) : obj[i].key = k
\* obj[k]
Get(obj, k) == IF hasOwnProperty(obj, k) THEN obj[IndexOf(obj, k)].value ELSE Undefined
\* obj[k] = v : an existing key keeps its place, a new key goes last
Put(obj, k, v) ==
    IF hasOwnProperty(obj, k)
    THEN [obj EXCEPT ![IndexOf(obj, k)] = [key |-> k, value |-> v]]
    ELSE Append(obj, [key |-> k, value |-> v])
\* delete obj[k]
Delete(obj, k) ==
    IF hasOwnProperty(obj, k)
    THEN SubSeq(obj, 1, IndexOf(obj, k) - 1) \o SubSeq(obj, IndexOf(obj, k) + 1, Len(obj))
    ELSE obj
\* Object.keys(obj)[0]
FirstKey(obj) == IF obj = <<>> THEN Undefined ELSE obj[1].key
Values(obj) == [i \in 1..Len(obj) |-> obj[i].value]

\* ------------------------------------------- results of a method that may throw
Ok(w, ret) == [w |-> w, thrown |-> FALSE, ret |-> ret]
Throw(w, error) == [w |-> w, thrown |-> TRUE, ret |-> error]

\* -------------------------------------------------------- account objects
AccountFields ==
    {"publicKey", "privateKey", "name", "internal", "tokens", "transactions", "balance"}

Obj(f) == <<"object", f>>
Arr(seq) == <<"array", seq>>
EmptyObject == [k \in {} |-> Undefined]

\* Reading a property of an object that may lack it.
Prop(object, field) == IF field \in DOMAIN object THEN object[field] ELSE Undefined

\* An object literal with the account's properties; the others read undefined.
AccountObject(present) == [f \in AccountFields |-> Prop(present, f)]

\* { ...defaults, ...object } : the properties object has win.
Spread(defaults, object) ==
    [f \in AccountFields |-> IF object[f] # Undefined THEN object[f] ELSE defaults[f]]

\* ------------------------------------- AccountHandler (lib/AccountHandler)
\* A key pair: the public identity is a function of the private key.
PublicKeyOf(privateKey) == <<"address", privateKey>>

\* AccountHandler.generateAccount().export() : the fresh word list.
GeneratedMnemonic == <<"mnemonic", "generated">>
ImportedMnemonic == <<"mnemonic", "imported">>

\* new AccountHandler(mnemonic)
AccountHandler(mnemonic) == <<"AccountHandler", mnemonic>>

\* handler.getAccountAtIndex(index)
getAccountAtIndex(handler, index) ==
    LET privateKey == <<"privateKey", handler[2][2], index>>
    IN  AccountObject([publicKey |-> PublicKeyOf(privateKey), privateKey |-> privateKey])

\* new AccountHandler(privateKey, ACCOUNT_TYPE.RAW).export()
RawAccount(privateKey) ==
    AccountObject([publicKey |-> PublicKeyOf(privateKey), privateKey |-> privateKey])

RawKeys == {<<"privateKey", "raw", 1>>}

\* --------------------------------------------- JSON and Utils.encrypt/decrypt
\* JSON.stringify drops the properties whose value is undefined.
Defined(object) == [f \in {g \in DOMAIN object : object[g] # Undefined} |-> object[f]]

JSONstringify(payload) ==
    <<"json",
      [accounts |->
          [i \in 1..Len(payload.accounts) |->
              [key |-> payload.accounts[i].key,
               value |-> Defined(payload.accounts[i].value)]],
       internalAccounts |-> payload.internalAccounts,
       others |-> Defined([mnemonic |-> payload.mnemonic,
                           currentAccount |-> payload.currentAccount])]>>

\* JSON.parse of a text JSON.stringify wrote; a missing property reads undefined.
JSONparse(text) ==
    LET object == text[2]
    IN  [accounts |->
            [i \in 1..Len(object.accounts) |->
                [key |-> object.accounts[i].key,
                 value |-> AccountObject(object.accounts[i].value)]],
         mnemonic |-> Prop(object.others, "mnemonic"),
         currentAccount |-> Prop(object.others, "currentAccount"),
         internalAccounts |-> object.internalAccounts]

\* Utils.encrypt(text, password)
encrypt(text, password) == <<"ciphertext", password, text>>

\* A blob in the store that no password decrypts.
CorruptStorage == <<"corrupt">>

\* Utils.decrypt(storage, password) followed by JSON.parse: whether both succeed.
Decrypts(storage, password) ==
    /\ storage[1] = "ciphertext"
    /\ storage[2] = password

decrypt(storage, password) == storage[3]

\* ------------------------------------------------------------ the Wallet
\* The fields of a Wallet instance.  tronWebPrivateKey is the signing key of
\* this._tronWeb (setPrivateKey); localStorage is the blob Utils.saveStorage
\* wrote and Utils.loadStorage reads, which outlives the instance.
payload(w) ==
    [accounts |-> w.accounts,
     mnemonic |-> w.mnemonic,
     currentAccount |-> w.currentAccount,
     internalAccounts |-> w.internalAccounts]

_loadWallet(w) ==
    LET loaded == [w EXCEPT !.encryptedStorage = w.localStorage]
    IN  IF Truthy(loaded.encryptedStorage)
        THEN [loaded EXCEPT !.walletStatus = "LOCKED"]
        ELSE loaded

\* new Wallet(node), over the store the browser kept.
constructor(localStorage) ==
    _loadWallet([walletStatus |-> "UNINITIALIZED",
                 accounts |-> <<>>,
                 internalAccounts |-> 0,
                 rootAccount |-> False,
                 mnemonic |-> False,
                 password |-> False,
                 currentAccount |-> False,
                 encryptedStorage |-> False,
                 tronWebPrivateKey |-> False,
                 localStorage |-> localStorage])

_saveStorage(w, password) ==
    IF Falsy(w.password) /\ Falsy(password)
    THEN Throw(w, "Storage requires a password for encryption")
    ELSE LET key == IF Truthy(w.password) THEN w.password ELSE password
             storage == encrypt(JSONstringify(payload(w)), key)
         IN  Ok([w EXCEPT !.encryptedStorage = storage,
                          !.password = key,
                          !.localStorage = storage],
                Undefined)

addAccount(w, account) ==
    LET extendedAccount ==
            Spread(AccountObject([tokens |-> Obj(EmptyObject),
                                  transactions |-> Arr(<<>>),
                                  balance |-> Num(0)]),
                   account)
    IN  _saveStorage([w EXCEPT !.accounts = Put(@, account.publicKey, extendedAccount)],
                     False)

\* this._accounts[key], as Obj(account) when the key is there
accountAt(w, key) ==
    IF hasOwnProperty(w.accounts, key) THEN Obj(Get(w.accounts, key)) ELSE Undefined

getFullAccount(w) ==
    IF Truthy(accountAt(w, w.currentAccount))
    THEN Ok(w, accountAt(w, w.currentAccount))
    ELSE LET selected == [w EXCEPT !.currentAccount = FirstKey(w.accounts)]
             saved == _saveStorage(selected, False)
         IN  IF saved.thrown
             THEN saved
             ELSE Ok(saved.w, accountAt(saved.w, saved.w.currentAccount))

\* this._tronWeb.setPrivateKey(this.getFullAccount().privateKey)
setPrivateKeyOfFullAccount(w) ==
    LET full == getFullAccount(w)
    IN  IF full.thrown
        THEN full
        ELSE IF full.ret = Undefined
        THEN Throw(full.w, "TypeError: Cannot read property 'privateKey' of undefined")
        ELSE Ok([full.w EXCEPT !.tronWebPrivateKey = full.ret[2].privateKey], Undefined)

\* An unlockWallet that takes the password before it has decrypted the store.
unlockWalletPasswordFirst(w, password) ==
    LET taken == [w EXCEPT !.password = password]
    IN  IF ~Decrypts(w.encryptedStorage, password)
        THEN Ok(taken, False)
        ELSE LET opened == JSONparse(decrypt(w.encryptedStorage, password))
                 rehydrated ==
                     [taken EXCEPT !.rootAccount = AccountHandler(opened.mnemonic),
                                   !.accounts = opened.accounts,
                                   !.mnemonic = opened.mnemonic,
                                   !.currentAccount = opened.currentAccount,
                                   !.internalAccounts = opened.internalAccounts]
                 keyed == setPrivateKeyOfFullAccount(rehydrated)
             IN  IF keyed.thrown
                 THEN Ok(keyed.w, False)
                 ELSE Ok([keyed.w EXCEPT !.walletStatus = "UNLOCKED"], True)

\* An unlockWallet that locks the wallet when the password is wrong.
unlockWalletLocksOnFailure(w, password) ==
    IF ~Decrypts(w.encryptedStorage, password)
    THEN Ok([w EXCEPT !.walletStatus = "LOCKED"], False)
    ELSE LET opened == JSONparse(decrypt(w.encryptedStorage, password))
             rehydrated ==
                 [w EXCEPT !.rootAccount = AccountHandler(opened.mnemonic),
                           !.accounts = opened.accounts,
                           !.mnemonic = opened.mnemonic,
                           !.currentAccount = opened.currentAccount,
                           !.password = password,
                           !.internalAccounts = opened.internalAccounts]
             keyed == setPrivateKeyOfFullAccount(rehydrated)
         IN  IF keyed.thrown
             THEN Ok(keyed.w, False)
             ELSE Ok([keyed.w EXCEPT !.walletStatus = "UNLOCKED"], True)

unlockWallet(w, password) ==
    IF ~Decrypts(w.encryptedStorage, password)
    THEN Ok(w, False)
    ELSE LET opened == JSONparse(decrypt(w.encryptedStorage, password))
             rehydrated ==
                 [w EXCEPT !.rootAccount = AccountHandler(opened.mnemonic),
                           !.accounts = opened.accounts,
                           !.mnemonic = opened.mnemonic,
                           !.currentAccount = opened.currentAccount,
                           !.password = password,
                           !.internalAccounts = opened.internalAccounts]
             keyed == setPrivateKeyOfFullAccount(rehydrated)
         IN  IF keyed.thrown
             THEN Ok(keyed.w, False)
             ELSE Ok([keyed.w EXCEPT !.walletStatus = "UNLOCKED"], True)

\* A setupWallet that does not refuse an empty password.
setupWalletAnyPassword(w, password) ==
    IF w.walletStatus # "UNINITIALIZED"
    THEN Throw(w, "Wallet cannot be initialized multiple times")
    ELSE LET wordList == GeneratedMnemonic
             defaultAccount ==
                 [getAccountAtIndex(AccountHandler(wordList), 0)
                     EXCEPT !.name = DefaultAccountName, !.internal = True]
             prepared ==
                 [w EXCEPT !.rootAccount = AccountHandler(wordList),
                           !.mnemonic = wordList,
                           !.password = password,
                           !.internalAccounts = 1]
             added == addAccount(prepared, defaultAccount)
         IN  IF added.thrown
             THEN added
             ELSE Ok(unlockWallet(added.w, password).w, defaultAccount)

setupWallet(w, password) ==
    IF w.walletStatus # "UNINITIALIZED"
    THEN Throw(w, "Wallet cannot be initialized multiple times")
    ELSE IF Falsy(password)
    THEN Throw(w, "Wallet cannot be initialized without a password")
    ELSE LET wordList == GeneratedMnemonic
             defaultAccount ==
                 [getAccountAtIndex(AccountHandler(wordList), 0)
                     EXCEPT !.name = DefaultAccountName, !.internal = True]
             prepared ==
                 [w EXCEPT !.rootAccount = AccountHandler(wordList),
                           !.mnemonic = wordList,
                           !.password = password,
                           !.internalAccounts = 1]
             added == addAccount(prepared, defaultAccount)
         IN  IF added.thrown
             THEN added
             ELSE Ok(unlockWallet(added.w, password).w, defaultAccount)

isSetup(w) == w.walletStatus # "UNINITIALIZED"

getAccounts(w) == w.accounts

getAccount(w, address) ==
    IF w.walletStatus # "UNLOCKED"
    THEN Ok(w, False)
    ELSE IF Truthy(accountAt(w, address))
    THEN Ok(w, accountAt(w, address))
    ELSE LET keyed ==
                 setPrivateKeyOfFullAccount([w EXCEPT !.currentAccount = FirstKey(w.accounts)])
             saved == _saveStorage(keyed.w, False)
         IN  IF keyed.thrown
             THEN keyed
             ELSE IF saved.thrown
             THEN saved
             ELSE Ok(saved.w, accountAt(saved.w, saved.w.currentAccount))

\* Object.values(this._accounts).some(account => account.name === accountName)
nameTaken(w, accountName) ==
    \E i \in 1..Len(w.accounts) : w.accounts[i].value.name = accountName

\* The name an account gets: cut to 32 characters, trimmed, false when taken.
accountNameFor(w, name) ==
    LET accountName == Str(trim(substring(name[2], NameLimit)))
    IN  IF nameTaken(w, accountName) THEN False ELSE accountName

createAccount(w, name) ==
    IF w.rootAccount = False
    THEN Throw(w, "TypeError: this._rootAccount.getAccountAtIndex is not a function")
    ELSE LET derived == getAccountAtIndex(w.rootAccount, w.internalAccounts + 1)
             named == IF Truthy(name)
                      THEN [derived EXCEPT !.name = accountNameFor(w, name)]
                      ELSE derived
             account == [named EXCEPT !.internal = True]
             added == addAccount([w EXCEPT !.internalAccounts = @ + 1], account)
         IN  IF added.thrown THEN added ELSE Ok(added.w, account)

_importRaw(w, privateKey, name) ==
    LET exported == RawAccount(privateKey)
        account == IF Truthy(name)
                   THEN [exported EXCEPT !.name = accountNameFor(w, name)]
                   ELSE exported
        added == addAccount(w, account)
    IN  IF added.thrown THEN added ELSE Ok(added.w, account)

selectAccount(w, publicKey) ==
    IF ~hasOwnProperty(w.accounts, publicKey)
    THEN Ok(w, Undefined)
    ELSE LET keyed == setPrivateKeyOfFullAccount([w EXCEPT !.currentAccount = publicKey])
         IN  IF keyed.thrown THEN keyed ELSE _saveStorage(keyed.w, False)

\* A deleteAccount that does not keep the last account.
deleteAccountEvenLast(w, publicKey) ==
    IF ~hasOwnProperty(w.accounts, publicKey)
    THEN Ok(w, Undefined)
    ELSE LET deleted == [w EXCEPT !.accounts = Delete(@, publicKey)]
         IN  IF w.currentAccount = publicKey
             THEN selectAccount(deleted, FirstKey(deleted.accounts))
             ELSE _saveStorage(deleted, False)

deleteAccount(w, publicKey) ==
    IF ~hasOwnProperty(w.accounts, publicKey)
    THEN Ok(w, Undefined)
    ELSE IF Len(w.accounts) = 1
    THEN Ok(w, Undefined)
    ELSE LET deleted == [w EXCEPT !.accounts = Delete(@, publicKey)]
         IN  IF w.currentAccount = publicKey
             THEN selectAccount(deleted, FirstKey(deleted.accounts))
             ELSE _saveStorage(deleted, False)

\* ------------------------------------------ seed-phrase import (the gap scan)
\* while(checked < 20)
GapLimit == 20

DigitChars == <<"0", "1", "2", "3", "4", "5", "6", "7", "8", "9">>

\* The decimal digits a number has inside a template literal.
RECURSIVE decimal(_)
decimal(n) ==
    IF n < 10
    THEN <<DigitChars[n + 1]>>
    ELSE decimal(n \div 10) \o <<DigitChars[(n % 10) + 1]>>

\* `${name.toString().trim()} ${accounts.length + 1}`.substring(0, 32), false
\* when an account of the wallet has that name.
seedAccountName(w, name, found) ==
    LET accountName ==
            Str(substring(trim(name[2]) \o <<" ">> \o decimal(found + 1), NameLimit))
    IN  IF nameTaken(w, accountName) THEN False ELSE accountName

\* The run-th run of _importMnemonic, suspended on trx.getTransactionsRelated
\* for the account at accountIndex.  scanned keeps, for each index already answered,
\* whether the Chain Client reported history and whether the wallet held the key.
Scan(run, mnemonic, name) ==
    [run |-> run, mnemonic |-> mnemonic, name |-> name, accountIndex |-> 0,
     checked |-> 0, accounts |-> <<>>, scanned |-> <<>>]

\* A loop that goes on counting the indices without history after one with.
scanAnswerNoReset(w, p, history) ==
    LET childAccount == getAccountAtIndex(AccountHandler(p.mnemonic), p.accountIndex)
        held == hasOwnProperty(w.accounts, childAccount.publicKey)
        next == [p EXCEPT !.accountIndex = @ + 1,
                          !.scanned = Append(@, [history |-> history, held |-> held])]
        named == IF Truthy(p.name)
                 THEN [childAccount EXCEPT
                          !.name = seedAccountName(w, p.name, Len(p.accounts))]
                 ELSE childAccount
    IN  IF ~history
        THEN [next EXCEPT !.checked = @ + 1]
        ELSE IF held
        THEN next
        ELSE [next EXCEPT !.accounts = Append(@, named)]

\* One turn of the loop, from the Chain Client's answer to the next query.
scanAnswer(w, p, history) ==
    LET childAccount == getAccountAtIndex(AccountHandler(p.mnemonic), p.accountIndex)
        held == hasOwnProperty(w.accounts, childAccount.publicKey)
        next == [p EXCEPT !.accountIndex = @ + 1,
                          !.scanned = Append(@, [history |-> history, held |-> held])]
        named == IF Truthy(p.name)
                 THEN [childAccount EXCEPT
                          !.name = seedAccountName(w, p.name, Len(p.accounts))]
                 ELSE childAccount
    IN  IF ~history
        THEN [next EXCEPT !.checked = @ + 1]
        ELSE IF held
        THEN [next EXCEPT !.checked = 0]
        ELSE [next EXCEPT !.checked = 0, !.accounts = Append(@, named)]

\* accounts.forEach(account => this.addAccount(account)) : a throw ends it.
RECURSIVE addAccounts(_, _)
addAccounts(w, accounts) ==
    IF accounts = <<>>
    THEN Ok(w, Undefined)
    ELSE LET added == addAccount(w, Head(accounts))
         IN  IF added.thrown THEN added ELSE addAccounts(added.w, Tail(accounts))

\* ------------------------------------------------ the Chain Client's answers
\* this._tronWeb.trx.getAccount(address)
ChainAccounts ==
    {[balance |-> Num(1),
      asset |-> Arr(<<[key |-> "T", value |-> 0], [key |-> "U", value |-> 2]>>)]}

\* this._tronWeb.trx.getTransactionsRelated(address)
ChainTransactions == {Arr(<<"tx">>)}

\* (account.asset || []).filter(value > 0).reduce(obj[key] = value)
tokensOf(account) ==
    LET assets == IF Falsy(account.asset) THEN <<>> ELSE account.asset[2]
        kept == SelectSeq(assets, LAMBDA a : a.value > 0)
        last(k) == CHOOSE i \in 1..Len(kept) :
                       /\ kept[i].key = k
                       /\ \A j \in (i + 1)..Len(kept) : kept[j].key # k
    IN  Obj([k \in {kept[i].key : i \in 1..Len(kept)} |-> kept[last(k)].value])

\* Utils.convertTransactions(transactions, address)
convertTransactions(transactions, address) ==
    Arr([i \in 1..Len(transactions[2]) |-> <<transactions[2][i], address>>])

\* An updateAccount that replaces the balance and the tokens and keeps the
\* transactions it had.
updateAccountKeepsTransactions(w, address, account, transactions) ==
    LET before == IF hasOwnProperty(w.accounts, address)
                  THEN Get(w.accounts, address)
                  ELSE AccountObject(EmptyObject)
        after == [before EXCEPT
                     !.balance = IF Falsy(account.balance) THEN Num(0) ELSE account.balance,
                     !.tokens = tokensOf(account)]
    IN  [w EXCEPT !.accounts = Put(@, address, after)]

\* The assignment updateAccount makes once both answers are in.
updateAccountWith(w, address, account, transactions) ==
    LET before == IF hasOwnProperty(w.accounts, address)
                  THEN Get(w.accounts, address)
                  ELSE AccountObject(EmptyObject)
        after == [before EXCEPT
                     !.transactions = convertTransactions(transactions, address),
                     !.balance = IF Falsy(account.balance) THEN Num(0) ELSE account.balance,
                     !.tokens = tokensOf(account)]
    IN  [w EXCEPT !.accounts = Put(@, address, after)]

\* ------------------------------------------------------------------ state
VARIABLES
    wallet,                 \* the Wallet instance and the store behind it
    refreshes,              \* updateAccount(s) runs suspended on the Chain Client
    refreshRuns,            \* updateAccount(s) runs started so far
    imports,                \* seed-phrase imports suspended on the Chain Client
    importRuns,             \* seed-phrase imports started so far
    pendingConfirmations,   \* the registry: id -> {confirmation, resolve, reject}
    dialog,                 \* the prompt window handle: "false", "open" or "closed"
    isOpenPending,          \* popup.isOpen() calls not yet answered
    accepts,                \* accept handlers suspended on the wallet's Chain Client calls
    issued,                 \* identifiers randomUUID has handed out
    started,                \* accept handlers that found their confirmation
    requests,               \* raw broadcasts a page has requested
    continuations,          \* id -> the calls made to the submitter's resolve / reject
    walletCalls,            \* id -> the wallet operations an accept of id invoked
    chainCalls,             \* the Chain Client's build / sign / broadcast calls
    lastEvent               \* the handler that ran last, its input and its outcome

importVars == <<imports, importRuns>>
walletVars == <<wallet, refreshes, refreshRuns, importVars>>
registryVars == <<pendingConfirmations, dialog, isOpenPending, accepts, issued, started>>
historyVars == <<requests, continuations, walletCalls, chainCalls>>
vars == <<walletVars, registryVars, historyVars, lastEvent>>

Ids == 1..MaxConfirmations

\* lastEvent: a handler whose outcome is observed, the confirmation it was
\* about (0: none) and how it ended; NoEvent after every other step.
Event(handler, id, outcome) ==
    [handler |-> handler, id |-> id, outcome |-> outcome, reply |-> <<>>]
Reply(handler, reply) ==
    [handler |-> handler, id |-> 0, outcome |-> "resolved", reply |-> reply]
NoEvent == Event("none", 0, "none")

\* ----------------------------------------------------------------- inputs
\* The password the user chooses (or leaves empty), and what is typed at unlock:
\* the same, or another one.
Passwords == {Str(<<"p">>), Str(<<>>)}
UnlockPasswords == Passwords \cup {Str(<<"q">>)}
\* The name asked for: none, or one that trims to "A".
Names == {Undefined, Str(<<"A", " ">>)}
UnknownAddress == PublicKeyOf(<<"privateKey", "other", 0>>)
Addresses == KeySet(wallet.accounts) \cup {UnknownAddress}

\* --------------------------------------------------------- initial state
Init ==
    /\ \E stored \in {False, CorruptStorage} : wallet = constructor(stored)
    /\ refreshes = {}
    /\ refreshRuns = 0
    /\ imports = {}
    /\ importRuns = 0
    /\ pendingConfirmations = <<>>
    /\ dialog = "false"
    /\ isOpenPending = 0
    /\ accepts = {}
    /\ issued = 0
    /\ started = 0
    /\ requests = 0
    /\ continuations = [i \in Ids |-> <<>>]
    /\ walletCalls = [i \in Ids |-> <<>>]
    /\ chainCalls = {}
    /\ lastEvent = NoEvent

\* ------------------------------------ account refreshes (updateAccounts)
NoAnswer == [balance |-> Undefined, asset |-> Undefined]

\* A run of updateAccounts (all) or of updateAccount(address), suspended on the
\* Chain Client for the account keys[1].  reply is the address the handler then
\* passes to wallet.getAccount (Undefined: the default, the current account).
Refresh(keys, all, reply) ==
    [keys |-> keys, pc |-> "getAccount", account |-> NoAnswer, all |-> all,
     detached |-> FALSE, reply |-> reply]

\* popup.sendAccount(wallet.getAccount(address)), for what it does to the wallet
sendAccount(w, address) ==
    getAccount(w, IF address = Undefined THEN w.currentAccount ELSE address).w

\* What is left of `await wallet.updateAccounts()` and of the handler once the
\* loop has ended: the save, then the account sent to the popup.
finishUpdateAccounts(w) ==
    LET saved == _saveStorage(w, False)
    IN  IF saved.thrown THEN saved.w ELSE sendAccount(saved.w, Undefined)

\* for (const address in accounts): a key deleted before its turn is skipped,
\* unless this._accounts has been replaced by another object since (detached).
remainingKeys(w, p) ==
    IF p.detached
    THEN Tail(p.keys)
    ELSE SelectSeq(Tail(p.keys), LAMBDA k : hasOwnProperty(w.accounts, k))

CanRefresh == refreshRuns < MaxRefreshes

\* The handler part of `await wallet.updateAccounts(); popup.sendAccount(...)`.
StartUpdateAccounts(w, running) ==
    IF w.accounts = <<>>
    THEN /\ wallet' = finishUpdateAccounts(w)
         /\ refreshes' = running
         /\ refreshRuns' = refreshRuns
    ELSE /\ wallet' = w
         /\ refreshes' = running \cup {Refresh(Keys(w.accounts), TRUE, Undefined)}
         /\ refreshRuns' = refreshRuns + 1

\* The Chain Client answers trx.getAccount, or fails and the run ends rejected.
RefreshGetAccount(p) ==
    /\ p \in refreshes
    /\ p.pc = "getAccount"
    /\ \/ \E answer \in ChainAccounts :
            refreshes' = (refreshes \ {p}) \cup
                {[p EXCEPT !.pc = "getTransactionsRelated", !.account = answer]}
       \/ refreshes' = refreshes \ {p}
    /\ lastEvent' = NoEvent
    /\ UNCHANGED <<wallet, refreshRuns, importVars, registryVars, historyVars>>

\* The Chain Client answers trx.getTransactionsRelated: the account's cached
\* fields are replaced and the loop goes on, or ends.
RefreshGetTransactions(p) ==
    /\ p \in refreshes
    /\ p.pc = "getTransactionsRelated"
    /\ \/ \E transactions \in ChainTransactions :
            LET updated == updateAccountWith(wallet, p.keys[1], p.account, transactions)
                rest == remainingKeys(updated, p)
            IN  IF ~p.all
                THEN /\ wallet' = sendAccount(updated, p.reply)
                     /\ refreshes' = refreshes \ {p}
                ELSE IF rest # <<>>
                THEN /\ wallet' = updated
                     /\ refreshes' = (refreshes \ {p}) \cup
                            {[p EXCEPT !.keys = rest, !.pc = "getAccount",
                                       !.account = NoAnswer]}
                ELSE /\ wallet' = finishUpdateAccounts(updated)
                     /\ refreshes' = refreshes \ {p}
       \/ /\ wallet' = wallet
          /\ refreshes' = refreshes \ {p}
    /\ lastEvent' = NoEvent
    /\ UNCHANGED <<refreshRuns, importVars, registryVars, historyVars>>

\* -------------------------------------------- the popup's wallet handlers
\* popup.on('setPassword')
SetPassword(password) ==
    /\ IF isSetup(wallet)
       THEN /\ wallet' = wallet
            /\ lastEvent' = Event("setPassword", 0, "rejected")
       ELSE LET setup == setupWallet(wallet, password)
            IN  /\ wallet' = setup.w
                /\ lastEvent' = Event("setPassword", 0,
                                      IF setup.thrown THEN "thrown" ELSE "resolved")
    /\ UNCHANGED <<refreshes, refreshRuns, importVars, registryVars, historyVars>>

\* Once unlockWallet has replaced this._accounts, the loops still running go on
\* over the object they started with.
detach(p) ==
    [p EXCEPT !.detached = TRUE,
              !.keys = IF p.detached THEN @ ELSE <<Head(@)>> \o remainingKeys(wallet, p)]

\* popup.on('unlockWallet')
UnlockWallet(password) ==
    LET unlocked == unlockWallet(wallet, password)
    IN  /\ IF unlocked.ret = True
           THEN /\ CanRefresh
                /\ StartUpdateAccounts(unlocked.w, {detach(p) : p \in refreshes})
           ELSE /\ wallet' = unlocked.w
                /\ refreshRuns' = refreshRuns
                /\ refreshes' = IF Decrypts(wallet.encryptedStorage, password)
                                THEN {detach(p) : p \in refreshes}
                                ELSE refreshes
        /\ lastEvent' = Event("unlockWallet", 0,
                              IF unlocked.ret = True THEN "true" ELSE "false")
        /\ UNCHANGED <<importVars, registryVars, historyVars>>

\* if(!name || name.length > 32) return;
nameRefused(name) == Falsy(name) \/ Len(name[2]) > NameLimit

\* popup.on('createAccount')
CreateAccount(name) ==
    /\ wallet.internalAccounts < MaxDerived
    /\ IF nameRefused(name)
       THEN /\ wallet' = wallet
            /\ lastEvent' = NoEvent
       ELSE LET created == createAccount(wallet, name)
                selected == selectAccount(created.w, created.ret.publicKey)
            IN  IF created.thrown
                THEN /\ wallet' = created.w
                     /\ lastEvent' = NoEvent
                ELSE /\ wallet' = selected.w
                     /\ lastEvent' = NoEvent
    /\ UNCHANGED <<refreshes, refreshRuns, importVars, registryVars, historyVars>>

\* popup.on('importAccount') with accountType ACCOUNT_TYPE.RAW
ImportAccount(importData, name) ==
    /\ IF nameRefused(name)
       THEN /\ wallet' = wallet
            /\ lastEvent' = NoEvent
       ELSE LET imported == _importRaw(wallet, importData, name)
                selected == selectAccount(imported.w, imported.ret.publicKey)
            IN  IF imported.thrown
                THEN /\ wallet' = imported.w
                     /\ lastEvent' = NoEvent
                ELSE /\ wallet' = selected.w
                     /\ lastEvent' = NoEvent
    /\ UNCHANGED <<refreshes, refreshRuns, importVars, registryVars, historyVars>>

\* popup.on('selectAccount')
SelectAccount(publicKey) ==
    /\ LET selected == selectAccount(wallet, publicKey)
       IN  /\ wallet' = IF selected.thrown THEN selected.w
                        ELSE sendAccount(selected.w, Undefined)
           /\ lastEvent' = NoEvent
    /\ UNCHANGED <<refreshes, refreshRuns, importVars, registryVars, historyVars>>

\* popup.on('deleteAccount')
DeleteAccount(publicKey) ==
    /\ LET deleted == deleteAccount(wallet, publicKey)
       IN  /\ wallet' = IF deleted.thrown THEN deleted.w
                        ELSE sendAccount(deleted.w, Undefined)
           /\ lastEvent' = NoEvent
    /\ UNCHANGED <<refreshes, refreshRuns, importVars, registryVars, historyVars>>

\* popup.on('updateAccount')
UpdateAccount(publicKey) ==
    /\ CanRefresh
    /\ refreshes' = refreshes \cup {Refresh(<<publicKey>>, FALSE, publicKey)}
    /\ refreshRuns' = refreshRuns + 1
    /\ lastEvent' = NoEvent
    /\ UNCHANGED <<wallet, importVars, registryVars, historyVars>>

\* popup.on('getAccounts')
GetAccounts ==
    /\ CanRefresh
    /\ StartUpdateAccounts(wallet, refreshes)
    /\ lastEvent' = NoEvent
    /\ UNCHANGED <<importVars, registryVars, historyVars>>

\* popup.on('getWalletStatus')
GetWalletStatus ==
    /\ IF wallet.walletStatus = "UNLOCKED"
       THEN CanRefresh /\ StartUpdateAccounts(wallet, refreshes)
       ELSE UNCHANGED <<wallet, refreshes, refreshRuns, importVars>>
    /\ lastEvent' = NoEvent
    /\ UNCHANGED <<importVars, registryVars, historyVars>>

\* The background script is loaded again: new Wallet(...) over the same store,
\* an empty registry, no window handle.
Restart ==
    /\ wallet' = constructor(wallet.localStorage)
    /\ refreshes' = {}
    /\ pendingConfirmations' = <<>>
    /\ dialog' = "false"
    /\ isOpenPending' = 0
    /\ accepts' = {}
    /\ lastEvent' = NoEvent
    /\ imports' = {}
    /\ UNCHANGED <<refreshRuns, importRuns, issued, started, historyVars>>

\* ------------------------- what the handlers hand to the popup and the log
\* The private keys an accounts object carries when it is serialised.
privateKeysIn(accounts) ==
    {accounts[i].value.privateKey : i \in 1..Len(accounts)} \ {Undefined}

\* logger.info('Setting password for wallet', { wallet }) : the secrets in the
\* logged Wallet instance.
setPasswordLogs(w) ==
    privateKeysIn(w.accounts) \cup ({w.mnemonic, w.password} \ {False})

\* popup.on('setPassword') : resolve(account)
setPasswordResolves(w, password) == setupWallet(w, password).ret

\* popup.on('createAccount') : resolve(account)
createAccountResolves(w, name) == createAccount(w, name).ret

\* popup.sendAccount(wallet.getAccount()) : false, undefined or the account
sendAccountSends(w) == getAccount(w, w.currentAccount).ret

NextWallet ==
    \/ \E password \in Passwords : SetPassword(password)
    \/ \E password \in UnlockPasswords : UnlockWallet(password)
    \/ \E name \in Names : CreateAccount(name)
    \/ \E importData \in RawKeys, name \in Names : ImportAccount(importData, name)
    \/ \E publicKey \in Addresses : SelectAccount(publicKey)
    \/ \E publicKey \in Addresses : DeleteAccount(publicKey)
    \/ \E publicKey \in Addresses : UpdateAccount(publicKey)
    \/ GetAccounts
    \/ GetWalletStatus
    \/ \E p \in refreshes : RefreshGetAccount(p)
    \/ \E p \in refreshes : RefreshGetTransactions(p)
    \/ Restart

SpecWallet == Init /\ [][NextWallet]_vars

\* The background script is loaded again and the new run has its own budget
\* of refreshes.
RestartRun ==
    /\ wallet' = constructor(wallet.localStorage)
    /\ refreshes' = {}
    /\ refreshRuns' = 0
    /\ pendingConfirmations' = <<>>
    /\ dialog' = "false"
    /\ isOpenPending' = 0
    /\ accepts' = {}
    /\ lastEvent' = NoEvent
    /\ imports' = {}
    /\ UNCHANGED <<importRuns, issued, started, historyVars>>

\* A wallet set up, refreshed and used over several runs of the background
\* script.
SetupPassword == Str(<<"p">>)

NextRestart ==
    \/ SetPassword(SetupPassword)
    \/ \E password \in {SetupPassword, Str(<<"q">>)} : UnlockWallet(password)
    \/ \E publicKey \in Addresses : SelectAccount(publicKey)
    \/ \E publicKey \in Addresses : UpdateAccount(publicKey)
    \/ \E p \in refreshes : RefreshGetAccount(p)
    \/ \E p \in refreshes : RefreshGetTransactions(p)
    \/ RestartRun

SpecRestart == Init /\ [][NextRestart]_vars

\* ------------------------------------------------ seed-phrase import runs
\* The names asked for at a seed-phrase import: a short one and one of 31
\* characters.
RECURSIVE Repeat(_, _)
Repeat(char, n) == IF n = 0 THEN <<>> ELSE <<char>> \o Repeat(char, n - 1)

ImportNames == {Str(<<"A">>), Str(Repeat("a", NameLimit - 1))}

\* A private key the imported seed derives, held as a raw key as well.
SeedKeys == {getAccountAtIndex(AccountHandler(ImportedMnemonic), 0).privateKey}

\* trx.getTransactionsRelated(address).length > 0, for the account at index
HistoryAnswers(index) == IF index < MaxHistory THEN {TRUE, FALSE} ELSE {FALSE}

\* popup.on('importAccount') with accountType ACCOUNT_TYPE.MNEMONIC, up to the
\* first query of the scan.
ImportSeedPhrase(mnemonic, name) ==
    /\ importRuns < MaxImports
    /\ Cardinality(imports) < MaxScans
    /\ IF nameRefused(name)
       THEN UNCHANGED importVars
       ELSE /\ imports' = imports \cup {Scan(importRuns + 1, mnemonic, name)}
            /\ importRuns' = importRuns + 1
    /\ lastEvent' = NoEvent
    /\ UNCHANGED <<wallet, refreshes, refreshRuns, registryVars, historyVars>>

\* The Chain Client fails the scan's query and the import ends rejected; or it
\* answers: the loop goes on, or ends and the accounts found are added, the
\* handler selects and resolves.
AnswerScan(p) ==
    /\ p \in imports
    /\ \/ /\ wallet' = wallet
          /\ imports' = imports \ {p}
          /\ lastEvent' = Event("importAccount", 0, "rejected")
       \/ \E history \in HistoryAnswers(p.accountIndex) :
            LET next == scanAnswer(wallet, p, history)
                added == addAccounts(wallet, next.accounts)
            IN  IF next.checked < GapLimit
                THEN /\ wallet' = wallet
                     /\ imports' = (imports \ {p}) \cup {next}
                     /\ lastEvent' = NoEvent
                ELSE /\ imports' = imports \ {p}
                     /\ IF added.thrown
                        THEN /\ wallet' = added.w
                             /\ lastEvent' = Event("importAccount", 0, "thrown")
                        ELSE /\ wallet' = selectAccount(added.w, Undefined).w
                             /\ lastEvent' = Reply("importAccount", next.accounts)
    /\ UNCHANGED <<refreshes, refreshRuns, importRuns, registryVars, historyVars>>

NextImport ==
    \/ imports = {} /\ ~isSetup(wallet) /\ SetPassword(SetupPassword)
    \/ \E name \in ImportNames : ImportSeedPhrase(ImportedMnemonic, name)
    \/ \E p \in imports : AnswerScan(p)
    \/ \E importData \in SeedKeys : ImportAccount(importData, Str(<<"A">>))
    \/ \E publicKey \in Addresses : DeleteAccount(publicKey)

SpecImport == Init /\ [][NextImport]_vars

\* The Chain Client answers every query it is sent, or fails it.
SpecImportFair == SpecImport /\ WF_vars(\E p \in imports : AnswerScan(p))

\* ================================================ the confirmation registry
\* CONFIRMATION_TYPE: the eight kinds the accept handler dispatches on, and a
\* kind it does not know.
RpcTypes == {"SEND_TRON", "SEND_ASSET", "ISSUE_ASSET", "FREEZE", "UNFREEZE"}
ContractTypes == {"CREATE_SMARTCONTRACT", "TRIGGER_SMARTCONTRACT"}
ConfirmationTypes == RpcTypes \cup ContractTypes \cup {"SIGN_SMARTCONTRACT"}
SubmittedTypes ==
    (ConfirmationTypes \ {"SEND_TRON", "TRIGGER_SMARTCONTRACT", "SIGN_SMARTCONTRACT"})
        \cup {"UNKNOWN"}

\* The calls made to a submitter's continuations.
Denied == <<"reject", "denied">>
UnknownType == <<"reject", "Unknown transaction type">>
FailedToBuild == <<"reject", "Failed to build valid transaction">>
Resolved == <<"resolve", "ACCEPTED">>

closeDialog(pending, handle) ==
    IF Len(pending) > 0
    THEN handle
    ELSE IF handle = "false"
    THEN handle
    ELSE "false"

\* An addConfirmation that numbers the entries by the registry's size, so that
\* an identifier comes back once its entry has left.
addConfirmationBySize(confirmation) ==
    LET id == Len(pendingConfirmations) + 1
        handle == IF dialog = "closed" THEN "false" ELSE dialog
    IN  /\ issued < MaxConfirmations
        /\ issued' = issued + 1
        /\ pendingConfirmations' =
               Put(pendingConfirmations, id, [confirmation EXCEPT !.id = id])
        /\ dialog' = handle
        /\ isOpenPending' = IF handle # "false" THEN isOpenPending ELSE isOpenPending + 1

\* addConfirmation(confirmation, resolve, reject): the identifier is fresh
\* (randomUUID), the prompt is focused when there is one, else the popup is
\* asked whether it is open.
addConfirmation(confirmation) ==
    LET id == issued + 1
        handle == IF dialog = "closed" THEN "false" ELSE dialog
    IN  /\ issued < MaxConfirmations
        /\ issued' = id
        /\ pendingConfirmations' =
               Put(pendingConfirmations, id, [confirmation EXCEPT !.id = id])
        /\ dialog' = handle
        /\ isOpenPending' = IF handle # "false" THEN isOpenPending ELSE isOpenPending + 1

Confirmation(type, hostname) == [id |-> 0, type |-> type, hostname |-> hostname]
Hostname(name) == <<"hostname", name>>

\* popup.isOpen() is answered: the popup is open, or it is not and the catch
\* handler opens the prompt window.
IsOpenAnswered ==
    /\ isOpenPending > 0
    /\ isOpenPending' = isOpenPending - 1
    /\ \/ /\ dialog' = dialog
          /\ lastEvent' = NoEvent
       \/ /\ dialog' = "open"
          /\ lastEvent' = Event("isOpen", 0, "opened")
    /\ UNCHANGED <<walletVars, pendingConfirmations, accepts, issued, started, historyVars>>

\* The user closes the prompt window: dialog.closed becomes true.
DialogClosed ==
    /\ dialog = "open"
    /\ dialog' = "closed"
    /\ lastEvent' = NoEvent
    /\ UNCHANGED <<walletVars, pendingConfirmations, isOpenPending, accepts, issued,
                   started, historyVars>>

\* The registry's submit, for any operation descriptor.
SubmitOperation(type) ==
    /\ addConfirmation(Confirmation(type, Hostname("site")))
    /\ lastEvent' = Event("submit", issued + 1, "pending")
    /\ UNCHANGED <<walletVars, accepts, started, historyVars>>

Amounts == {0, 2}

ChainCall(call, via, id) == [call |-> call, via |-> via, id |-> id]

\* popup.on('sendTron'): valid says whether the recipient and the amount pass
\* Utils.transformAddress and Utils.validateAmount.
SendTron(valid, amount) ==
    LET account == getAccount(wallet, wallet.currentAccount)
        funded == \/ account.ret = False
                  \/ ~(amount > account.ret[2].balance[2])
    IN  IF ~valid
        THEN /\ lastEvent' = Event("sendTron", 0, "rejected")
             /\ UNCHANGED <<walletVars, registryVars, historyVars>>
        ELSE IF account.thrown \/ account.ret = Undefined
        THEN /\ wallet' = account.w
             /\ lastEvent' = Event("sendTron", 0, "thrown")
             /\ UNCHANGED <<refreshes, refreshRuns, importVars, registryVars, historyVars>>
        ELSE IF ~funded
        THEN /\ wallet' = account.w
             /\ lastEvent' = Event("sendTron", 0, "rejected")
             /\ UNCHANGED <<refreshes, refreshRuns, importVars, registryVars, historyVars>>
        ELSE /\ wallet' = account.w
             /\ addConfirmation(Confirmation("SEND_TRON", Hostname("TronLink")))
             /\ lastEvent' = Event("submit", issued + 1, "pending")
             /\ UNCHANGED <<refreshes, refreshRuns, importVars, accepts, started, historyVars>>

\* linkedResponse.on('request'), method createTriggerContractTransaction:
\* payload.parameter.length() throws when the page sent a parameter list.
RequestTrigger(hasParameter) ==
    IF hasParameter
    THEN /\ lastEvent' = Event("request", 0, "thrown")
         /\ UNCHANGED <<walletVars, registryVars, historyVars>>
    ELSE /\ addConfirmation(Confirmation("TRIGGER_SMARTCONTRACT", Undefined))
         /\ lastEvent' = Event("submit", issued + 1, "pending")
         /\ UNCHANGED <<walletVars, accepts, started, historyVars>>

\* A signTransaction request that signs at once, with no confirmation.
RequestSignUnconfirmed ==
    /\ chainCalls' = chainCalls \cup {ChainCall("sign", "request", 0)}
    /\ lastEvent' = Event("request", 0, "sign")
    /\ UNCHANGED <<walletVars, registryVars, requests, continuations, walletCalls>>

\* linkedResponse.on('request'), method signTransaction
RequestSign ==
    /\ addConfirmation(Confirmation("SIGN_SMARTCONTRACT", Undefined))
    /\ lastEvent' = Event("submit", issued + 1, "pending")
    /\ UNCHANGED <<walletVars, accepts, started, historyVars>>

\* linkedResponse.on('request'), method broadcast: the page's raw transaction
\* goes to trx.sendRawTransaction.
RequestBroadcast ==
    /\ requests < MaxRequests
    /\ requests' = requests + 1
    /\ chainCalls' = chainCalls \cup {ChainCall("broadcast", "request", 0)}
    /\ lastEvent' = Event("request", 0, "broadcast")
    /\ UNCHANGED <<walletVars, registryVars, continuations, walletCalls>>

\* popup.on('getConfirmations')
GetConfirmations ==
    /\ lastEvent' = Reply("getConfirmations", Values(pendingConfirmations))
    /\ UNCHANGED <<walletVars, registryVars, requests, continuations, walletCalls, chainCalls>>

\* A decline that rejects the submitter of id and removes the oldest entry.
DeclineRemovesOldest(id) ==
    IF ~hasOwnProperty(pendingConfirmations, id)
    THEN /\ lastEvent' = Event("declineConfirmation", id, "notFound")
         /\ UNCHANGED <<walletVars, registryVars, historyVars>>
    ELSE LET remaining == Delete(pendingConfirmations, FirstKey(pendingConfirmations))
         IN  /\ continuations' = [continuations EXCEPT ![id] = Append(@, Denied)]
             /\ pendingConfirmations' = remaining
             /\ dialog' = closeDialog(remaining, dialog)
             /\ lastEvent' = Event("declineConfirmation", id, "resolved")
             /\ UNCHANGED <<walletVars, isOpenPending, accepts, issued, started,
                            requests, walletCalls, chainCalls>>

\* A decline that rejects the submitter and leaves the entry in the registry.
DeclineKeepsEntry(id) ==
    IF ~hasOwnProperty(pendingConfirmations, id)
    THEN /\ lastEvent' = Event("declineConfirmation", id, "notFound")
         /\ UNCHANGED <<walletVars, registryVars, historyVars>>
    ELSE /\ continuations' = [continuations EXCEPT ![id] = Append(@, Denied)]
         /\ lastEvent' = Event("declineConfirmation", id, "resolved")
         /\ UNCHANGED <<walletVars, registryVars, requests, walletCalls, chainCalls>>

\* popup.on('declineConfirmation')
DeclineConfirmation(id) ==
    IF ~hasOwnProperty(pendingConfirmations, id)
    THEN /\ lastEvent' = Event("declineConfirmation", id, "notFound")
         /\ UNCHANGED <<walletVars, registryVars, historyVars>>
    ELSE LET remaining == Delete(pendingConfirmations, id)
         IN  /\ continuations' = [continuations EXCEPT ![id] = Append(@, Denied)]
             /\ pendingConfirmations' = remaining
             /\ dialog' = closeDialog(remaining, dialog)
             /\ lastEvent' = Event("declineConfirmation", id, "resolved")
             /\ UNCHANGED <<walletVars, isOpenPending, accepts, issued, started,
                            requests, walletCalls, chainCalls>>

\* ------------------------------------------------- the wallet's operations
\* The operation of the Wallet the accept handler calls for each kind.
walletOperation(type) ==
    CASE type = "SEND_TRON" -> "send"
      [] type = "SEND_ASSET" -> "sendAsset"
      [] type = "ISSUE_ASSET" -> "issueAsset"
      [] type = "CREATE_SMARTCONTRACT" -> "createSmartContract"
      [] type = "TRIGGER_SMARTCONTRACT" -> "triggerSmartContract"
      [] type = "SIGN_SMARTCONTRACT" -> "signSmartContract"
      [] type = "FREEZE" -> "freeze"
      [] type = "UNFREEZE" -> "unfreeze"

\* send, sendAsset, freeze, unfreeze, createSmartContract: the account is looked
\* up and its publicKey logged, the transaction is not built yet, the result is
\* false.
unbuiltOperation(w) ==
    LET account == getFullAccount(w)
    IN  IF account.thrown
        THEN account
        ELSE IF account.ret = Undefined
        THEN Throw(account.w, "TypeError: Cannot read property 'publicKey' of undefined")
        ELSE Ok(account.w, False)

\* triggerSmartContract up to its first call of the Chain Client
triggerSmartContract(w) ==
    LET account == getFullAccount(w)
    IN  IF account.thrown
        THEN account
        ELSE IF account.ret = Undefined
        THEN Throw(account.w, "TypeError: Cannot read property 'publicKey' of undefined")
        ELSE Ok(account.w, Undefined)

\* issueAsset does not look the account up.
issueAsset(w) == Ok(w, False)

\* What the accept handler holds in `output` when it checks it.
Output(response, rpcResponse) == [response |-> response, rpcResponse |-> rpcResponse]

\* trx.broadcast answers a receipt {result, transaction}; trx.sign a signed
\* transaction.
BroadcastReceipt == [result |-> True]
SignedTransaction == Obj([signature |-> True])

\* output.rpcResponse.result, a TypeError when rpcResponse is undefined
rpcResult(rpcResponse) ==
    IF rpcResponse[1] = "object" THEN Prop(rpcResponse[2], "result") ELSE Undefined

\* if(!output.response && !output.rpcResponse.result) throw ..., or the
\* TypeError of reading .result of undefined: the catch block runs.
outputRefused(output) ==
    /\ Falsy(output.response)
    /\ \/ output.rpcResponse = Undefined
       \/ Falsy(rpcResult(output.rpcResponse))

\* A catch block that rejects the submitter and forgets to delete the entry.
acceptFailedKeepsEntry(id, cause) ==
    /\ continuations' = [continuations EXCEPT ![id] = Append(@, FailedToBuild)]
    /\ pendingConfirmations' = pendingConfirmations
    /\ dialog' = closeDialog(pendingConfirmations, dialog)
    /\ lastEvent' = Event("acceptConfirmation", id, cause)

\* catch(ex): the exception is logged, the submitter is rejected and the entry
\* deleted. cause is what was caught: "thrown" when the wallet operation or the
\* Chain Client threw, "invalidOutput" when the operation returned and the
\* check of its output threw.
acceptFailed(id, cause) ==
    LET remaining == Delete(pendingConfirmations, id)
    IN  /\ continuations' = [continuations EXCEPT ![id] = Append(@, FailedToBuild)]
        /\ pendingConfirmations' = remaining
        /\ dialog' = closeDialog(remaining, dialog)
        /\ lastEvent' = Event("acceptConfirmation", id, cause)

\* The end of the handler: the submitter is resolved and the entry deleted.
acceptSucceeded(id) ==
    LET remaining == Delete(pendingConfirmations, id)
    IN  /\ continuations' = [continuations EXCEPT ![id] = Append(@, Resolved)]
        /\ pendingConfirmations' = remaining
        /\ dialog' = closeDialog(remaining, dialog)
        /\ lastEvent' = Event("acceptConfirmation", id, "resolved")

\* A default branch that rejects the submitter and forgets to delete the entry.
acceptUnknownKeepsEntry(id) ==
    /\ continuations' = [continuations EXCEPT ![id] = Append(@, UnknownType)]
    /\ pendingConfirmations' = pendingConfirmations
    /\ dialog' = closeDialog(pendingConfirmations, dialog)
    /\ lastEvent' = Event("acceptConfirmation", id, "unknown")

\* default: of the switch
acceptUnknown(id) ==
    LET remaining == Delete(pendingConfirmations, id)
    IN  /\ continuations' = [continuations EXCEPT ![id] = Append(@, UnknownType)]
        /\ pendingConfirmations' = remaining
        /\ dialog' = closeDialog(remaining, dialog)
        /\ lastEvent' = Event("acceptConfirmation", id, "unknown")

acceptSettled(id, output) ==
    IF outputRefused(output) THEN acceptFailed(id, "invalidOutput") ELSE acceptSucceeded(id)

\* An accept handler suspended on the Chain Client call pc.
Accept(task, id, type, pc) == [task |-> task, id |-> id, type |-> type, pc |-> pc]

\* popup.on('acceptConfirmation'), up to its first Chain Client call.
AcceptConfirmation(id) ==
    IF ~hasOwnProperty(pendingConfirmations, id)
    THEN /\ lastEvent' = Event("acceptConfirmation", id, "notFound")
         /\ UNCHANGED <<walletVars, registryVars, historyVars>>
    ELSE LET type == Get(pendingConfirmations, id).type
             called == [walletCalls EXCEPT ![id] = Append(@, walletOperation(type))]
             trigger == triggerSmartContract(wallet)
             unbuilt == IF type = "ISSUE_ASSET" THEN issueAsset(wallet)
                        ELSE unbuiltOperation(wallet)
         IN  /\ started < MaxAccepts
             /\ started' = started + 1
             /\ UNCHANGED <<refreshes, refreshRuns, importVars, isOpenPending, issued, requests>>
             /\ IF type \in RpcTypes
                THEN /\ wallet' = unbuilt.w
                     /\ walletCalls' = called
                     /\ UNCHANGED <<accepts, chainCalls>>
                     /\ IF unbuilt.thrown
                        THEN acceptFailed(id, "thrown")
                        ELSE acceptSettled(id, Output(Undefined, unbuilt.ret))
                ELSE IF type = "CREATE_SMARTCONTRACT"
                THEN /\ wallet' = unbuilt.w
                     /\ walletCalls' = called
                     /\ UNCHANGED <<accepts, chainCalls>>
                     /\ IF unbuilt.thrown
                        THEN acceptFailed(id, "thrown")
                        ELSE acceptSettled(id, Output(Undefined, Undefined))
                ELSE IF type = "TRIGGER_SMARTCONTRACT"
                THEN /\ wallet' = trigger.w
                     /\ walletCalls' = called
                     /\ IF trigger.thrown
                        THEN /\ UNCHANGED <<accepts, chainCalls>>
                             /\ acceptFailed(id, "thrown")
                        ELSE /\ accepts' = accepts \cup
                                    {Accept(started + 1, id, type, "triggerSmartContract")}
                             /\ chainCalls' = chainCalls \cup
                                    {ChainCall("triggerSmartContract", "accept", id)}
                             /\ lastEvent' = Event("acceptConfirmation", id, "suspended")
                             /\ UNCHANGED <<pendingConfirmations, dialog, continuations>>
                ELSE IF type = "SIGN_SMARTCONTRACT"
                THEN /\ wallet' = wallet
                     /\ walletCalls' = called
                     /\ accepts' = accepts \cup {Accept(started + 1, id, type, "sign")}
                     /\ chainCalls' = chainCalls \cup {ChainCall("sign", "accept", id)}
                     /\ lastEvent' = Event("acceptConfirmation", id, "suspended")
                     /\ UNCHANGED <<pendingConfirmations, dialog, continuations>>
                ELSE /\ UNCHANGED <<wallet, walletCalls, accepts, chainCalls>>
                     /\ acceptUnknown(id)

\* The Chain Client call a suspended accept handler awaits throws.
ChainThrows(p) ==
    /\ accepts' = accepts \ {p}
    /\ acceptFailed(p.id, "thrown")
    /\ UNCHANGED <<walletVars, isOpenPending, issued, started, requests, walletCalls,
                   chainCalls>>

\* The Chain Client call a suspended accept handler awaits answers: the next
\* call is made, or the handler checks its output and settles.
ChainAnswers(p) ==
    /\ UNCHANGED <<walletVars, isOpenPending, issued, started, requests, walletCalls>>
    /\ IF p.pc = "triggerSmartContract"
       THEN /\ accepts' = (accepts \ {p}) \cup {[p EXCEPT !.pc = "sign"]}
            /\ chainCalls' = chainCalls \cup {ChainCall("sign", "accept", p.id)}
            /\ lastEvent' = Event("acceptConfirmation", p.id, "suspended")
            /\ UNCHANGED <<pendingConfirmations, dialog, continuations>>
       ELSE IF p.pc = "sign" /\ p.type = "TRIGGER_SMARTCONTRACT"
       THEN /\ accepts' = (accepts \ {p}) \cup {[p EXCEPT !.pc = "broadcast"]}
            /\ chainCalls' = chainCalls \cup {ChainCall("broadcast", "accept", p.id)}
            /\ lastEvent' = Event("acceptConfirmation", p.id, "suspended")
            /\ UNCHANGED <<pendingConfirmations, dialog, continuations>>
       ELSE IF p.pc = "sign"
       THEN /\ accepts' = accepts \ {p}
            /\ chainCalls' = chainCalls
            /\ acceptSettled(p.id, Output(SignedTransaction, Undefined))
       ELSE /\ accepts' = accepts \ {p}
            /\ chainCalls' = chainCalls
            /\ acceptSettled(p.id, Output(Prop(BroadcastReceipt, "response"),
                                          Prop(BroadcastReceipt, "rpcResponse")))

NextRegistry ==
    \/ \E password \in Passwords : SetPassword(password)
    \/ \E type \in SubmittedTypes : SubmitOperation(type)
    \/ \E valid \in BOOLEAN, amount \in Amounts : SendTron(valid, amount)
    \/ \E hasParameter \in BOOLEAN : RequestTrigger(hasParameter)
    \/ RequestSign
    \/ RequestBroadcast
    \/ GetConfirmations
    \/ \E id \in Ids : DeclineConfirmation(id)
    \/ \E id \in Ids : AcceptConfirmation(id)
    \/ \E p \in accepts : ChainThrows(p)
    \/ \E p \in accepts : ChainAnswers(p)
    \/ IsOpenAnswered
    \/ DialogClosed

SpecRegistry == Init /\ [][NextRegistry]_vars

\* Submits and listings while a seed-phrase scan and accept handlers are
\* suspended on the Chain Client.
NextSubmit ==
    \/ imports = {} /\ ~isSetup(wallet) /\ SetPassword(SetupPassword)
    \/ importRuns = 0 /\ ImportSeedPhrase(ImportedMnemonic, Str(<<"A">>))
    \/ \E p \in imports : AnswerScan(p)
    \/ \E amount \in Amounts : SendTron(TRUE, amount)
    \/ RequestSign
    \/ GetConfirmations
    \/ \E id \in Ids : AcceptConfirmation(id)
    \/ \E p \in accepts : ChainAnswers(p)

SpecSubmit == Init /\ [][NextSubmit]_vars

\* ----------------------------------- the answers a request's sender gets
\* The names a createAccount or importAccount request may carry: none, a short
\* one, one over the limit.
AnswerNames == Names \cup {Str(Repeat("a", NameLimit + 1))}

\* popup.on('createAccount') : the continuation the handler calls, if any
createAccountAnswer(w, name) ==
    IF nameRefused(name) THEN "none"
    ELSE IF createAccount(w, name).thrown THEN "thrown"
    ELSE "resolve"

\* popup.on('importAccount') with a raw key : the continuation the handler calls
importAccountAnswer(w, importData, name) ==
    IF nameRefused(name) THEN "none"
    ELSE IF _importRaw(w, importData, name).thrown THEN "thrown"
    ELSE "resolve"

\* The handlers that answer a request at once, on a wallet and a registry of
\* operations of a kind the accept handler does not know.
NextAnswers ==
    \/ SetPassword(SetupPassword)
    \/ \E name \in AnswerNames : CreateAccount(name)
    \/ \E importData \in RawKeys, name \in AnswerNames : ImportAccount(importData, name)
    \/ SubmitOperation("UNKNOWN")
    \/ \E id \in Ids : DeclineConfirmation(id)
    \/ \E id \in Ids : AcceptConfirmation(id)
    \/ IsOpenAnswered

SpecAnswers == Init /\ [][NextAnswers]_vars

\* ===================================================== the registry's claims
Last(calls) == calls[Len(calls)]
Range(calls) == {calls[i] : i \in 1..Len(calls)}
Pending(id) == hasOwnProperty(pendingConfirmations, id)
PendingAfter(id) == hasOwnProperty(pendingConfirmations', id)

\* The accept handler returned in this step: which confirmation, how.
AcceptOutcomes == {"thrown", "invalidOutput", "resolved", "unknown"}
AcceptReturns(id) ==
    /\ lastEvent'.handler = "acceptConfirmation"
    /\ lastEvent'.id = id
    /\ lastEvent'.outcome \in AcceptOutcomes

\* C1: the continuations of a submitted confirmation are called at most once in
\* total, whatever the interleaving of accept and decline signals: never
\* resolve and reject both, never one of them twice.
C1_ContinuationsCalledAtMostOnce ==
    \A id \in Ids : Len(continuations[id]) <= 1

C3_DeclineThenNotFound ==
    [][\A id \in Ids :
          /\ (Pending(id) /\ lastEvent'.handler = "declineConfirmation" /\ lastEvent'.id = id)
                => /\ continuations'[id] = Append(continuations[id], Denied)
                   /\ ~PendingAfter(id)
                   /\ lastEvent'.outcome = "resolved"
          /\ (Denied \in Range(continuations[id]))
                => /\ ~PendingAfter(id)
                   /\ (lastEvent'.handler \in {"declineConfirmation", "acceptConfirmation"}
                         /\ lastEvent'.id = id /\ accepts' = accepts)
                        => /\ lastEvent'.outcome = "notFound"
                           /\ UNCHANGED <<walletVars, registryVars, historyVars>>]_vars

C3_Witness ==
    \E id \in Ids :
        /\ continuations[id] = <<Denied>>
        /\ lastEvent = Event("acceptConfirmation", id, "notFound")

\* C4: the entry of an accepted confirmation is removed once and, in every
\* state after its accept handler has returned, getConfirmations does not
\* list it; an identifier that has left the registry is never admitted again.
C4_AcceptedNeverListedAgain ==
    [][\A id \in Ids :
          /\ AcceptReturns(id) => ~PendingAfter(id)
          /\ (id <= issued /\ ~Pending(id)) => ~PendingAfter(id)
          /\ (lastEvent'.handler = "getConfirmations" /\ ~PendingAfter(id))
                => \A i \in 1..Len(lastEvent'.reply) : lastEvent'.reply[i].id # id
          /\ lastEvent'.handler = "getConfirmations"
                => lastEvent'.reply = Values(pendingConfirmations')]_vars

C4_Witness ==
    /\ lastEvent.handler = "getConfirmations"
    /\ Len(lastEvent.reply) = 1
    /\ \E id \in Ids : /\ walletCalls[id] # <<>>
                       /\ Len(continuations[id]) = 1
                       /\ id < issued
                       /\ ~Pending(id)

\* C5: when the wallet operation of an accepted confirmation throws or returns
\* a result the handler refuses, the submitter is rejected with 'Failed to
\* build valid transaction' and the entry is removed; no accept handler
\* returns with its confirmation still pending.
C5_FailedAcceptRejectsAndRemoves ==
    [][\A id \in Ids :
          /\ AcceptReturns(id) => ~PendingAfter(id)
          /\ (AcceptReturns(id) /\ lastEvent'.outcome \in {"thrown", "invalidOutput"})
                => continuations'[id] = Append(continuations[id], FailedToBuild)
          /\ (\E p \in accepts \ accepts' : p.id = id /\ accepts' \subseteq accepts
                                           /\ p.type = "TRIGGER_SMARTCONTRACT")
                => Last(continuations'[id]) = FailedToBuild
          /\ (Pending(id) /\ lastEvent'.handler = "acceptConfirmation" /\ lastEvent'.id = id
                /\ Get(pendingConfirmations, id).type \in RpcTypes \cup {"CREATE_SMARTCONTRACT"})
                => /\ lastEvent'.outcome \in {"thrown", "invalidOutput"}
                   /\ Last(continuations'[id]) = FailedToBuild]_vars

C5_Witness ==
    \E id \in Ids :
        /\ lastEvent = Event("acceptConfirmation", id, "thrown")
        /\ walletCalls[id] = <<"triggerSmartContract">>
        /\ ChainCall("sign", "accept", id) \in chainCalls
        /\ continuations[id] = <<FailedToBuild>>
        /\ ~Pending(id)

\* C6: accepting a pending confirmation of one of the eight kinds calls the one
\* wallet operation of that kind, and when that operation returns without
\* throwing the submitter is resolved with the accepted result.
C6_CompletedOperationResolves ==
    \A id \in Ids :
        (/\ lastEvent.handler = "acceptConfirmation"
         /\ lastEvent.id = id
         /\ lastEvent.outcome \in {"invalidOutput", "resolved"})
            => /\ Len(walletCalls[id]) = 1
               /\ Last(continuations[id]) = Resolved

\* C7: accepting a pending confirmation of a kind the switch does not know
\* rejects the submitter with 'Unknown transaction type', removes the entry
\* and calls neither the wallet nor the Chain Client.
C7_UnknownKindRejected ==
    [][\A id \in Ids :
          (/\ Pending(id)
           /\ Get(pendingConfirmations, id).type \notin ConfirmationTypes
           /\ lastEvent'.handler = "acceptConfirmation"
           /\ lastEvent'.id = id)
            => /\ continuations'[id] = Append(continuations[id], UnknownType)
               /\ ~PendingAfter(id)
               /\ UNCHANGED <<wallet, walletCalls, chainCalls, accepts>>]_vars

C7_Witness ==
    \E id \in Ids :
        /\ lastEvent = Event("acceptConfirmation", id, "unknown")
        /\ continuations[id] = <<UnknownType>>
        /\ walletCalls[id] = <<>>

\* ======================================================= the wallet's claims
\* C8: after setPassword has set the wallet up from UNINITIALIZED, whatever was
\* attempted before, the wallet holds exactly one account, named 'Default
\* Account' and internal, that account is the selected one, the counter of
\* internal accounts is 1 and the status is UNLOCKED.
C8_SetupYieldsOneDefaultAccount ==
    lastEvent = Event("setPassword", 0, "resolved")
        => /\ Len(wallet.accounts) = 1
           /\ wallet.accounts[1].value.name = DefaultAccountName
           /\ wallet.accounts[1].value.internal = True
           /\ wallet.currentAccount = wallet.accounts[1].key
           /\ wallet.internalAccounts = 1
           /\ wallet.walletStatus = "UNLOCKED"

\* C9: setPassword fails when the wallet is not UNINITIALIZED and when the
\* password is empty, and then the status, the accounts, the mnemonic and root
\* account, the password, the counter and the stored ciphertext are as before.
C9_FailedSetupChangesNothing ==
    [][\A password \in Passwords :
          (/\ SetPassword(password)
           /\ lastEvent'.handler = "setPassword"
           /\ wallet.walletStatus # "UNINITIALIZED" \/ Falsy(password))
            => /\ lastEvent'.outcome \in {"rejected", "thrown"}
               /\ wallet' = wallet]_vars

C9_Witness ==
    /\ lastEvent = Event("setPassword", 0, "thrown")
    /\ wallet.walletStatus = "UNINITIALIZED"
    /\ wallet.accounts # <<>>

\* C10: unlockWallet with a password that does not decrypt the stored
\* ciphertext, or over a store that cannot be decrypted or parsed, returns
\* false and leaves the status, the accounts, the selected account, the
\* password, the counter and the Chain Client's private key as they were, in
\* every status.
C10_FailedUnlockChangesNothing ==
    [][\A password \in UnlockPasswords :
          (/\ UnlockWallet(password)
           /\ lastEvent'.handler = "unlockWallet"
           /\ ~Decrypts(wallet.encryptedStorage, password))
            => /\ lastEvent'.outcome = "false"
               /\ wallet' = wallet]_vars

C10_Witness ==
    /\ lastEvent = Event("unlockWallet", 0, "false")
    /\ wallet.walletStatus = "UNLOCKED"
    /\ wallet.password = Str(<<"p">>)

\* C11: on a new Wallet instance over the same store, unlockWallet with the
\* password of the setup returns true, sets the status UNLOCKED, restores the
\* accounts, the mnemonic and root account, the selected account and the counter
\* of internal accounts to what was stored last, and the Chain Client's private
\* key is the private key of the selected account.
C11_UnlockAfterRestartRestores ==
    [][\A password \in UnlockPasswords :
          (/\ wallet.walletStatus = "LOCKED"
           /\ wallet.password = False
           /\ Decrypts(wallet.localStorage, password)
           /\ UnlockWallet(password)
           /\ lastEvent'.handler = "unlockWallet")
            => LET stored == JSONparse(decrypt(wallet.localStorage, password))
               IN  /\ lastEvent'.outcome = "true"
                   /\ wallet'.walletStatus = "UNLOCKED"
                   /\ wallet'.accounts = stored.accounts
                   /\ wallet'.mnemonic = stored.mnemonic
                   /\ wallet'.rootAccount = AccountHandler(stored.mnemonic)
                   /\ wallet'.currentAccount = stored.currentAccount
                   /\ wallet'.internalAccounts = stored.internalAccounts
                   /\ hasOwnProperty(wallet'.accounts, wallet'.currentAccount)
                   /\ wallet'.tronWebPrivateKey[1] = "privateKey"
                   /\ wallet'.tronWebPrivateKey =
                          Get(wallet'.accounts, wallet'.currentAccount).privateKey]_vars

\* C12: once the wallet is set up and unlocked it holds at least one account:
\* deleteAccount of the only account, or of a key the wallet does not hold,
\* changes nothing, and any other deleteAccount removes the named account and
\* no other.
C12_AccountsNeverEmpty ==
    [][/\ wallet'.walletStatus = "UNLOCKED" => wallet'.accounts # <<>>
       /\ \A publicKey \in Addresses :
             (wallet.walletStatus = "UNLOCKED" /\ DeleteAccount(publicKey))
                => IF hasOwnProperty(wallet.accounts, publicKey) /\ Len(wallet.accounts) > 1
                   THEN wallet'.accounts = Delete(wallet.accounts, publicKey)
                   ELSE wallet' = wallet]_vars

C12_Witness ==
    /\ wallet.walletStatus = "UNLOCKED"
    /\ wallet.internalAccounts = 2
    /\ Len(wallet.accounts) = 1

\* C13: createAccount or importAccount with a requested name that, cut to 32
\* characters and trimmed, is the name of an existing account still succeeds:
\* the new account is registered with no name and every existing account
\* keeps its name.
C13_CollidingNameIsDropped ==
    [][\A name \in Names, importData \in RawKeys :
          LET collides ==
                  /\ ~nameRefused(name)
                  /\ nameTaken(wallet, Str(trim(substring(name[2], NameLimit))))
              registered(publicKey) ==
                  /\ hasOwnProperty(wallet'.accounts, publicKey)
                  /\ Get(wallet'.accounts, publicKey).name = False
                  /\ \A i \in 1..Len(wallet.accounts) :
                        Get(wallet'.accounts, wallet.accounts[i].key).name =
                            wallet.accounts[i].value.name
          IN  /\ (collides /\ CreateAccount(name))
                    => /\ wallet.rootAccount # False
                       /\ registered(getAccountAtIndex(wallet.rootAccount,
                                         wallet.internalAccounts + 1).publicKey)
              /\ (collides /\ ImportAccount(importData, name))
                    => registered(PublicKeyOf(importData))]_vars

\* C14: in every reachable state every display name stored in the Account
\* Directory is at most 32 characters long and trimmed, and no two accounts
\* have the same display name, whatever sequence of setup, raw-key import and
\* seed-phrase import led there.
C14_NamesShortTrimmedUnique ==
    LET named == {i \in 1..Len(wallet.accounts) : wallet.accounts[i].value.name[1] = "string"}
        nameOf(i) == wallet.accounts[i].value.name[2]
    IN  /\ \A i \in named : Len(nameOf(i)) <= NameLimit /\ trim(nameOf(i)) = nameOf(i)
        /\ \A i, j \in named : nameOf(i) = nameOf(j) => i = j

\* C15: a seed-phrase import that returns has returned and registered exactly
\* the derived accounts for which the Chain Client reported history and whose
\* key the wallet did not hold when their index was scanned, in index order,
\* and it scanned up to the end of the first run of 20 consecutive indices
\* without history; with history on the first 3 indices only it imports 3.
C15_ImportKeepsAccountsWithHistory ==
    [][\A p \in imports :
          (AnswerScan(p) /\ lastEvent'.handler = "importAccount"
                         /\ lastEvent'.outcome = "resolved")
             => LET n == p.accountIndex + 1
                    history(i) == i <= Len(p.scanned) /\ p.scanned[i].history
                    held(i) == i <= Len(p.scanned) /\ p.scanned[i].held
                    kept == SelectSeq([i \in 1..n |-> i],
                                      LAMBDA i : history(i) /\ ~held(i))
                    keyAt(i) ==
                        getAccountAtIndex(AccountHandler(p.mnemonic), i - 1).publicKey
                    returned == lastEvent'.reply
                IN  /\ Len(returned) = Len(kept)
                    /\ \A k \in 1..Len(kept) : returned[k].publicKey = keyAt(kept[k])
                    /\ KeySet(wallet'.accounts) =
                          KeySet(wallet.accounts) \cup {keyAt(kept[k]) : k \in 1..Len(kept)}
                    /\ \A k \in 1..Len(kept) :
                          Get(wallet'.accounts, keyAt(kept[k])).privateKey =
                              returned[k].privateKey
                    /\ n >= GapLimit
                    /\ \A i \in (n - GapLimit + 1)..n : ~history(i)
                    /\ \A first \in 1..(n - GapLimit) :
                          \E i \in first..(first + GapLimit - 1) : history(i)
                    /\ (\A i \in 1..n : history(i) <=> i <= 3) /\ (\A i \in 1..3 : ~held(i))
                          => Len(returned) = 3]_vars

C15_Witness ==
    /\ lastEvent.handler = "importAccount"
    /\ lastEvent.outcome = "resolved"
    /\ Len(lastEvent.reply) = 3
    /\ Len(wallet.accounts) = 4

\* C16: a gap scan whose queries the Chain Client all answers, with history on
\* finitely many indices, comes to an end, and it has then derived exactly
\* (highest index with history + 1 + 20) indices, 20 when no index has
\* history; while it runs it never derives more.
C16_ScanTerminatesAfterGap ==
    /\ [][\A p \in imports :
             AnswerScan(p)
                => LET derived == p.accountIndex + 1
                       withHistory == {i \in 1..Len(p.scanned) : p.scanned[i].history}
                       highest == CHOOSE i \in withHistory : \A j \in withHistory : j <= i
                       ended == /\ lastEvent'.handler = "importAccount"
                                /\ lastEvent'.outcome # "rejected"
                   IN  /\ ended /\ withHistory = {} => derived = GapLimit
                       /\ ended /\ withHistory # {} => derived = highest + GapLimit
                       /\ withHistory = {} => derived <= GapLimit
                       /\ withHistory # {} => derived <= highest + GapLimit]_vars
    /\ (imports # {}) ~> (imports = {})

C16_Witness ==
    /\ lastEvent.handler = "importAccount"
    /\ lastEvent.outcome = "resolved"
    /\ Len(lastEvent.reply) = 2
    /\ imports = {}
    /\ importRuns = 1

\* C17: at most one prompt window is open at a time: a submit focuses the
\* window when there is one and asks for one when there is none, and a window
\* is opened only while none is open, also when several submits arrive before
\* the first one's is-the-popup-open check has answered.
C17_WindowOpenedOnlyWhenNone ==
    [][/\ (lastEvent'.handler = "submit" /\ dialog = "open")
             => dialog' = "open" /\ isOpenPending' = isOpenPending
       /\ (lastEvent'.handler = "submit" /\ dialog # "open")
             => isOpenPending' = isOpenPending + 1
       /\ (lastEvent'.handler = "isOpen" /\ lastEvent'.outcome = "opened")
             => dialog # "open"]_vars

\* C18: an accept or decline that leaves the registry empty closes the prompt
\* window and one that leaves it non-empty keeps the window; so no state with
\* every handler finished and no is-open check pending has an empty registry
\* and an open prompt window.
C18_NoWindowOverEmptyRegistry ==
    [][/\ (/\ lastEvent'.handler \in {"acceptConfirmation", "declineConfirmation"}
           /\ pendingConfirmations' # pendingConfirmations)
             => IF pendingConfirmations' = <<>>
                THEN dialog' = "false"
                ELSE dialog' = dialog
       /\ (pendingConfirmations' = <<>> /\ isOpenPending' = 0 /\ accepts' = {})
             => dialog' # "open"]_vars

\* C19: nothing handed to the popup and no log entry contains an account's
\* private key, the root seed or the password: not the Wallet instance the
\* setPassword handler logs, not the account setPassword and createAccount
\* resolve with, not the account sent to the popup after a selection.
C19_NoSecretLeavesTheWallet ==
    [][/\ \A password \in Passwords :
             SetPassword(password)
                => /\ setPasswordLogs(wallet) = {}
                   /\ lastEvent'.outcome = "resolved"
                         => setPasswordResolves(wallet, password).privateKey = Undefined
       /\ \A name \in Names :
             (CreateAccount(name) /\ ~nameRefused(name)
                                  /\ ~createAccount(wallet, name).thrown)
                => createAccountResolves(wallet, name).privateKey = Undefined
       /\ \A publicKey \in Addresses :
             (SelectAccount(publicKey) /\ wallet'.walletStatus = "UNLOCKED")
                => \/ sendAccountSends(wallet') = Undefined
                   \/ sendAccountSends(wallet')[2].privateKey = Undefined]_vars

\* C20: every request that carries continuations has one of them called: an
\* accept or a decline of an id the registry does not hold, and a
\* createAccount or importAccount whose name is missing or longer than 32
\* characters, end with the request answered.
C20_EveryRequestAnswered ==
    [][/\ lastEvent'.handler \in {"acceptConfirmation", "declineConfirmation"}
             => lastEvent'.outcome # "notFound"
       /\ \A name \in AnswerNames :
             CreateAccount(name) => createAccountAnswer(wallet, name) # "none"
       /\ \A importData \in RawKeys, name \in AnswerNames :
             ImportAccount(importData, name)
                => importAccountAnswer(wallet, importData, name) # "none"]_vars

\* C21: selectAccount with an identity the wallet does not hold changes
\* nothing, and selectAccount with the selected identity leaves the Account
\* Directory, the selection and the plaintext of the persisted storage as they
\* were.
C21_SelectUnknownOrCurrentKeeps ==
    [][\A publicKey \in Addresses :
          SelectAccount(publicKey)
             => /\ ~hasOwnProperty(wallet.accounts, publicKey) => wallet' = wallet
                /\ (hasOwnProperty(wallet.accounts, publicKey)
                        /\ publicKey = wallet.currentAccount)
                      => /\ wallet'.accounts = wallet.accounts
                         /\ wallet'.currentAccount = wallet.currentAccount
                         /\ \/ wallet'.localStorage = wallet.localStorage
                            \/ /\ wallet.localStorage[1] = "ciphertext"
                               /\ wallet'.localStorage[1] = "ciphertext"
                               /\ decrypt(wallet'.localStorage, wallet'.password) =
                                      decrypt(wallet.localStorage, wallet.password)]_vars

C23_StatusOnlyMovesToUnlocked ==
    [][~Restart
          => \/ wallet'.walletStatus = wallet.walletStatus
             \/ /\ wallet.walletStatus = "UNINITIALIZED"
                /\ wallet'.walletStatus = "UNLOCKED"
                /\ lastEvent' = Event("setPassword", 0, "resolved")
             \/ /\ wallet.walletStatus = "LOCKED"
                /\ wallet'.walletStatus = "UNLOCKED"
                /\ lastEvent' = Event("unlockWallet", 0, "true")]_vars

C23_Witness ==
    /\ wallet.walletStatus = "UNLOCKED"
    /\ lastEvent = Event("unlockWallet", 0, "false")

\* C24: internal accounts use consecutive derivation indices: setup derives
\* index 0 and the n-th createAccount after it derives index n, the value of
\* the internal-account counter before the call, and adds exactly 1 to the
\* counter.
C24_ConsecutiveDerivationIndices ==
    [][/\ lastEvent' = Event("setPassword", 0, "resolved")
             => /\ wallet'.internalAccounts = 1
                /\ hasOwnProperty(wallet'.accounts,
                       getAccountAtIndex(wallet'.rootAccount, 0).publicKey)
       /\ \A name \in Names :
             (CreateAccount(name) /\ ~nameRefused(name)
                                  /\ ~createAccount(wallet, name).thrown)
                => /\ wallet'.internalAccounts = wallet.internalAccounts + 1
                   /\ createAccount(wallet, name).ret.publicKey =
                          getAccountAtIndex(wallet.rootAccount,
                                            wallet.internalAccounts).publicKey]_vars

\* C25: every record of the Account Directory carries its identity and a
\* private key, as setup, createAccount and importAccount make it: a refresh
\* never adds an identity to the directory, neither for an identity the wallet
\* does not hold nor for an account deleted while its refresh was suspended.
C25_RefreshAddsNoIdentity ==
    [][/\ \A i \in 1..Len(wallet'.accounts) :
             /\ wallet'.accounts[i].value.publicKey = wallet'.accounts[i].key
             /\ wallet'.accounts[i].value.privateKey # Undefined
       /\ \A p \in refreshes :
             (RefreshGetAccount(p) \/ RefreshGetTransactions(p))
                => KeySet(wallet'.accounts) \subseteq KeySet(wallet.accounts)]_vars

\* C26: whenever no wallet operation is in progress and a password is known,
\* the persisted storage decrypts with that password to the payload the
\* wallet holds in memory: accounts with their cached fields, root seed,
\* selected account and internal-account counter.
C26_StorageHoldsThePayload ==
    (refreshes = {} /\ imports = {} /\ Truthy(wallet.password))
        => /\ Decrypts(wallet.localStorage, wallet.password)
           /\ decrypt(wallet.localStorage, wallet.password) =
                  JSONstringify(payload(wallet))

\* C27: createAccount and importAccount invoked while the wallet is not
\* Unlocked fail and leave the Account Directory in memory, the
\* internal-account counter and the persisted storage as they were.
C27_NotUnlockedCreatesNothing ==
    [][\A name \in Names, importData \in RawKeys :
          LET unchanged == /\ wallet'.accounts = wallet.accounts
                           /\ wallet'.internalAccounts = wallet.internalAccounts
                           /\ wallet'.localStorage = wallet.localStorage
          IN  /\ (wallet.walletStatus # "UNLOCKED" /\ ~nameRefused(name)
                                                   /\ CreateAccount(name))
                    => createAccount(wallet, name).thrown /\ unchanged
              /\ (wallet.walletStatus # "UNLOCKED" /\ ~nameRefused(name)
                                                   /\ ImportAccount(importData, name))
                    => _importRaw(wallet, importData, name).thrown /\ unchanged]_vars

\* C28: a pending confirmation stays in the registry with its descriptor, and
\* its continuations stay uncalled, until an accept or a decline of its own
\* id: no listing, no submit or resolution of another confirmation, no wallet
\* operation and no opening or closing of the prompt window removes or alters
\* it.
C28_PendingUntilOwnResolution ==
    [][\A id \in KeySet(pendingConfirmations) :
          \/ /\ hasOwnProperty(pendingConfirmations', id)
             /\ Get(pendingConfirmations', id) = Get(pendingConfirmations, id)
             /\ continuations'[id] = continuations[id]
          \/ /\ lastEvent'.handler \in {"acceptConfirmation", "declineConfirmation"}
             /\ lastEvent'.id = id]_vars

C28_Witness ==
    /\ hasOwnProperty(pendingConfirmations, 1)
    /\ continuations[1] = <<>>
    /\ continuations[2] # <<>>
    /\ dialog = "closed"
    /\ lastEvent.handler = "getConfirmations"

\* C29: every submit that passes validation adds exactly one entry to the
\* registry, under an identifier different from every identifier issued
\* before and with the descriptor submitted, also while a seed-phrase scan or
\* an accept is suspended; and while nothing has been resolved the listing
\* returns exactly the descriptors submitted, in the order of their submits.
C29_SubmitAddsOneFreshEntry ==
    [][/\ lastEvent'.handler = "submit"
             => LET id == lastEvent'.id
                    n == Len(pendingConfirmations)
                IN  /\ id \notin 1..issued
                    /\ issued' = id
                    /\ Len(pendingConfirmations') = n + 1
                    /\ SubSeq(pendingConfirmations', 1, n) = pendingConfirmations
                    /\ pendingConfirmations'[n + 1].key = id
                    /\ pendingConfirmations'[n + 1].value.id = id
       /\ (RequestSign /\ issued < MaxConfirmations)
             => /\ lastEvent'.handler = "submit"
                /\ Last(pendingConfirmations').value =
                       [Confirmation("SIGN_SMARTCONTRACT", Undefined)
                           EXCEPT !.id = issued + 1]
       /\ \A amount \in Amounts :
             (SendTron(TRUE, amount) /\ lastEvent'.handler = "submit")
                => Last(pendingConfirmations').value =
                       [Confirmation("SEND_TRON", Hostname("TronLink"))
                           EXCEPT !.id = issued + 1]
       /\ (lastEvent'.handler = "getConfirmations" /\ started = 0)
             => /\ Len(lastEvent'.reply) = issued
                /\ \A k \in 1..issued :
                      /\ lastEvent'.reply[k].id = k
                      /\ lastEvent'.reply[k] = pendingConfirmations[k].value]_vars

C29_Witness ==
    /\ lastEvent.handler = "submit"
    /\ lastEvent.id = 2
    /\ imports # {}
    /\ accepts # {}
    /\ Len(pendingConfirmations) = 2

\* C30: in every Unlocked state with no wallet operation in progress, the
\* selected identity is a key of the Account Directory and the Chain Client
\* signs with the private key of that selected account; so after deleteAccount
\* removes the selected account, both point to one remaining account.
C30_SelectionAndSignerAgree ==
    (wallet.walletStatus = "UNLOCKED" /\ refreshes = {} /\ imports = {})
        => /\ hasOwnProperty(wallet.accounts, wallet.currentAccount)
           /\ wallet.tronWebPrivateKey # Undefined
           /\ wallet.tronWebPrivateKey =
                  Get(wallet.accounts, wallet.currentAccount).privateKey

====
